---- MODULE Spec2Model ----
(***************************************************************************)
(* kafka_rolling_restart: run() of main.py driving                         *)
(* execute_rolling_decommission of rolling_decommission.py.                *)
(*                                                                         *)
(* One behaviour is one invocation of the command line tool: the options   *)
(* and the cluster are fixed in the initial state, and every step of run() *)
(* and of the rolling loop is one action.  The helpers imported from       *)
(* util.py, ssh.py, task.py and utils.py are modelled from their           *)
(* documented contract.                                                    *)
(***************************************************************************)
EXTENDS Integers, Sequences, FiniteSets, TLC

(* ------------------------------------------------------------------ *)
(* Bounds of the model                                                 *)
(* ------------------------------------------------------------------ *)
MaxBrokers == 3
MaxCheckCount == 2

\* values of --skip and --check-count that are tried
Skips == -1 .. MaxBrokers
CheckCounts == -1 .. MaxCheckCount
\* values of --unhealthy-time-limit and --check-interval that are tried (seconds)
TimeLimits == {-1, 0, 1}
CheckIntervals == {-1, 0, 1}

\* broker ids a user can name with --broker-ids: one more than can exist
BrokerIds == 1 .. (MaxBrokers + 1)
\* --broker-ids left out (argparse gives None, modelled as <<>>), or one or two ids
BrokerIdArgs == {<<>>} \cup [1 .. 1 -> BrokerIds] \cup [1 .. 2 -> BrokerIds]

\* --task references that are tried: PreA and PreB are modules holding a
\* PreStopTask, PostA holds a PostStopTask, Other holds neither
TaskArgs ==
    { <<>>,
      <<"PreA", "PostA", "PreB", "PreA">>,
      <<"Other">>,
      <<"PostA", "Other", "PreA">> }

\* what the operator may type at the confirmation prompt
Answers ==
    { "yes", "Yes", "YES", "y", "Y", "no", "No", "NO", "n", "N",
      "maybe", "ok", "yes please" }

None == "None"

(* ------------------------------------------------------------------ *)
(* Sequence helpers                                                    *)
(* ------------------------------------------------------------------ *)
Range(s) == {s[i] : i \in 1 .. Len(s)}

\* Python s[k:] for 0 <= k
SliceFrom(s, k) == SubSeq(s, k + 1, Len(s))

(* ------------------------------------------------------------------ *)
(* The cluster                                                         *)
(* ------------------------------------------------------------------ *)
HostOf(id) == 10 + id

\* get_broker_list(cluster_config): the (id, host) pairs in ascending id order
get_broker_list(num) == [i \in 1 .. num |-> <<i, HostOf(i)>>]

\* filter_broker_list(brokers, filter_by): the pairs whose id is in filter_by
filter_broker_list(bs, filter_by) ==
    LET keep(b) == b[1] \in Range(filter_by) IN SelectSeq(bs, keep)

(* ------------------------------------------------------------------ *)
(* main.py: option validation                                          *)
(* ------------------------------------------------------------------ *)
\* validate_opts returns True when the options are NOT valid
\* faulty variant: skip equal to the number of brokers is let through
validate_opts_off_by_one(o, brokers_num) ==
    \/ o.skip < 0 \/ o.skip > brokers_num
    \/ o.check_count < 0
    \/ o.unhealthy_time_limit < 0
    \/ o.check_interval < 0

validate_opts(o, brokers_num) ==
    \/ o.skip < 0 \/ o.skip >= brokers_num
    \/ o.check_count < 0
    \/ o.unhealthy_time_limit < 0
    \/ o.check_interval < 0

\* the loop of validate_broker_ids_subset: valid after the first k subset ids
RECURSIVE subset_loop(_, _, _)
subset_loop(all_ids, subset_ids, k) ==
    IF k = 0 THEN TRUE
    ELSE subset_loop(all_ids, subset_ids, k - 1) /\ subset_ids[k] \in all_ids

\* faulty variant: valid is overwritten, so only the last id decides
validate_broker_ids_subset_last_only(broker_ids, subset_ids) ==
    subset_ids = <<>> \/ subset_ids[Len(subset_ids)] \in Range(broker_ids)

validate_broker_ids_subset(broker_ids, subset_ids) ==
    subset_loop(Range(broker_ids), subset_ids, Len(subset_ids))

\* [id for id, host in brokers]
IdsOf(bs) == [i \in 1 .. Len(bs) |-> bs[i][1]]

(* ------------------------------------------------------------------ *)
(* main.py: loading the tasks                                          *)
(* ------------------------------------------------------------------ *)
tasks_classes == <<"PreStopTask", "PostStopTask">>

\* dynamic_import(func, task_class): the class of module func that implements
\* task_class, or None when the module holds no such class
dynamic_import(func, task_class) ==
    IF \/ func \in {"PreA", "PreB"} /\ task_class = "PreStopTask"
       \/ func = "PostA" /\ task_class = "PostStopTask"
    THEN func
    ELSE None

\* list(zip(tasks, task_args)): pairs, as many as the shorter list has
Zip(tasks, task_args) ==
    LET m == IF Len(tasks) <= Len(task_args) THEN Len(tasks) ELSE Len(task_args)
    IN [i \in 1 .. m |-> <<tasks[i], task_args[i]>>]

\* dict(pairs).items(): one item per key, in the order the keys first occur,
\* each with the value of the key's last occurrence
RECURSIVE DictItems(_, _)
DictItems(pairs, k) ==
    IF k = 0 THEN <<>>
    ELSE LET before == DictItems(pairs, k - 1)
             key == pairs[k][1]
         IN IF \E i \in 1 .. Len(before) : before[i][1] = key
            THEN [i \in 1 .. Len(before) |->
                    IF before[i][1] = key THEN pairs[k] ELSE before[i]]
            ELSE Append(before, pairs[k])

\* the two nested loops of get_task_class after j iterations of the inner body
RECURSIVE task_loop(_, _)
task_loop(items, j) ==
    IF j = 0 THEN [pre |-> <<>>, post |-> <<>>, exit |-> FALSE]
    ELSE LET prev == task_loop(items, j - 1)
             item == items[((j - 1) \div Len(tasks_classes)) + 1]
             task_class == tasks_classes[((j - 1) % Len(tasks_classes)) + 1]
             imported_class == dynamic_import(item[1], task_class)
             made == [cls |-> imported_class, arg |-> item[2]]
         IN IF prev.exit \/ imported_class = None THEN prev
            ELSE IF task_class = "PreStopTask"
                 THEN [prev EXCEPT !.pre = Append(@, made)]
            ELSE IF task_class = "PostStopTask"
                 THEN [prev EXCEPT !.post = Append(@, made)]
            ELSE [prev EXCEPT !.exit = TRUE]

get_task_class(tasks, task_args) ==
    LET items == DictItems(Zip(tasks, task_args), Len(Zip(tasks, task_args)))
    IN task_loop(items, Len(items) * Len(tasks_classes))

\* faulty variant: the answer is compared as typed
Lower_as_typed(s) == s

\* choice = input().lower()
Lower(s) ==
    CASE s \in {"Yes", "YES"} -> "yes"
      [] s = "Y" -> "y"
      [] s \in {"No", "NO"} -> "no"
      [] s = "N" -> "n"
      [] OTHER -> s

(* ------------------------------------------------------------------ *)
(* State                                                               *)
(* ------------------------------------------------------------------ *)
VARIABLES
    cluster,         \* what get_broker_list returns for the cluster
    opts,            \* the parsed command line
    pc,              \* where run() is
    brokers,         \* run(): brokers
    pre_stop_tasks,  \* run(): pre_stop_tasks
    post_stop_tasks, \* run(): post_stop_tasks
    choice,          \* ask_confirmation(): choice
    typed,           \* the line input() has read for ask_confirmation, or None
    n,               \* execute_rolling_decommission(): n of the for loop
    connection,      \* the hosts an ssh session is open to
    exc,             \* the exception that is propagating, or None
    wait,            \* the frame of wait_for_stable_cluster
    status,          \* the exit status of the process, -1 while it runs
    stdout,          \* the messages printed by main.py and the rolling loop
    commands,        \* the commands executed over ssh sessions, in order
    trace,           \* what the run did to the outside world, in order
    mon              \* the frame of get_consumer_offsets_metadata

vars == <<cluster, opts, pc, brokers, pre_stop_tasks, post_stop_tasks, choice,
          typed, n, connection, exc, wait, status, stdout, commands, trace, mon>>

Event(op, host, k) == [op |-> op, host |-> host, k |-> k]

\* no call of wait_for_stable_cluster is in progress
Idle ==
    [ hosts |-> <<>>, required |-> 0, stable_counter |-> 0, elapsed |-> 0,
      probed |-> {}, down |-> {}, recent |-> <<>>, ret |-> None ]

\* no call of get_consumer_offsets_metadata is in progress
MonIdle ==
    [ pc |-> "idle", topics |-> <<>>, raise_on_error |-> TRUE, unavailable |-> 0,
      load_calls |-> 0, k |-> 1, error |-> None, result |-> {} ]

Options ==
    [ broker_ids : BrokerIdArgs,
      skip : Skips,
      check_count : CheckCounts,
      unhealthy_time_limit : TimeLimits,
      check_interval : CheckIntervals,
      task : TaskArgs,
      no_confirm : BOOLEAN ]

\* --task-args: one argument string per --task, named by its position
task_args_of(o) == [i \in 1 .. Len(o.task) |-> i]

\* run() lines 266-276: the options are parsed and the broker list is read
Init ==
    /\ \E num \in 0 .. MaxBrokers : cluster = get_broker_list(num)
    /\ opts \in Options
    /\ brokers = cluster
    /\ pc = "broker_ids"
    /\ pre_stop_tasks = <<>>
    /\ post_stop_tasks = <<>>
    /\ choice = None
    /\ typed = None
    /\ n = 0
    /\ connection = {}
    /\ exc = None
    /\ wait = Idle
    /\ status = -1
    /\ stdout = <<>>
    /\ commands = <<>>
    /\ trace = <<>>
    /\ mon = MonIdle

\* sys.exit(code)
Exit(code) ==
    /\ pc' = "exit"
    /\ status' = code

(* ------------------------------------------------------------------ *)
(* run(): start-up                                                     *)
(* ------------------------------------------------------------------ *)
\* lines 277-280
BrokerIdsRejected ==
    /\ pc = "broker_ids"
    /\ opts.broker_ids # <<>>
    /\ ~validate_broker_ids_subset(IdsOf(brokers), opts.broker_ids)
    /\ Exit(1)
    /\ stdout' = Append(stdout, Event("Error: user specified broker id does not exist in cluster.", 0, 0))
    /\ UNCHANGED <<mon, typed, cluster, opts, brokers, pre_stop_tasks, post_stop_tasks, choice,
                   n, connection, exc, wait, commands, trace>>

BrokerIdsApplied ==
    /\ pc = "broker_ids"
    /\ opts.broker_ids # <<>>
    /\ validate_broker_ids_subset(IdsOf(brokers), opts.broker_ids)
    /\ brokers' = filter_broker_list(brokers, opts.broker_ids)
    /\ pc' = "validate_opts"
    /\ UNCHANGED <<mon, typed, cluster, opts, pre_stop_tasks, post_stop_tasks, choice,
                   n, connection, exc, wait, status, stdout, commands, trace>>

BrokerIdsAbsent ==
    /\ pc = "broker_ids"
    /\ opts.broker_ids = <<>>
    /\ pc' = "validate_opts"
    /\ UNCHANGED <<mon, typed, cluster, opts, brokers, pre_stop_tasks, post_stop_tasks, choice,
                   n, connection, exc, wait, status, stdout, commands, trace>>

\* lines 281-282
OptsRejected ==
    /\ pc = "validate_opts"
    /\ validate_opts(opts, Len(brokers))
    /\ Exit(1)
    /\ stdout' = Append(stdout, Event("Error: invalid option", 0, 0))
    /\ UNCHANGED <<mon, typed, cluster, opts, brokers, pre_stop_tasks, post_stop_tasks, choice,
                   n, connection, exc, wait, commands, trace>>

OptsAccepted ==
    /\ pc = "validate_opts"
    /\ ~validate_opts(opts, Len(brokers))
    /\ pc' = "tasks"
    /\ stdout' = IF opts.check_count = 0
                 THEN Append(stdout, Event("Warning: no check will be performed", 0, 0))
                 ELSE stdout
    /\ UNCHANGED <<mon, typed, cluster, opts, brokers, pre_stop_tasks, post_stop_tasks, choice,
                   n, connection, exc, wait, status, commands, trace>>

\* lines 283-287
NoTasks ==
    /\ pc = "tasks"
    /\ opts.task = <<>>
    /\ pc' = "confirm"
    /\ UNCHANGED <<mon, typed, cluster, opts, brokers, pre_stop_tasks, post_stop_tasks, choice,
                   n, connection, exc, wait, status, stdout, commands, trace>>

LoadTasks ==
    /\ pc = "tasks"
    /\ opts.task # <<>>
    /\ LET got == get_task_class(opts.task, task_args_of(opts))
       IN /\ trace' = Append(trace, Event("load_tasks", 0, Len(opts.task)))
          /\ IF got.exit
             THEN /\ Exit(1)
                  /\ stdout' = Append(stdout, Event("ERROR: Class is not a type of Pre/Post StopTask", 0, 0))
                  /\ UNCHANGED <<pre_stop_tasks, post_stop_tasks>>
             ELSE /\ pre_stop_tasks' = got.pre
                  /\ post_stop_tasks' = got.post
                  /\ pc' = "confirm"
                  /\ UNCHANGED <<status, stdout>>
    /\ UNCHANGED <<mon, typed, cluster, opts, brokers, choice, n, connection, exc, wait, commands>>

\* line 288, --no-confirm given
NoConfirm ==
    /\ pc = "confirm"
    /\ opts.no_confirm
    /\ pc' = "command"
    /\ UNCHANGED <<mon, typed, cluster, opts, brokers, pre_stop_tasks, post_stop_tasks, choice,
                   n, connection, exc, wait, status, stdout, commands, trace>>

\* ask_confirmation lines 181-182: prompt and read one answer
Prompt ==
    /\ pc = "confirm"
    /\ ~opts.no_confirm
    /\ \E answer \in Answers :
          /\ typed' = answer
          /\ choice' = Lower(answer)
    /\ pc' = "answered"
    /\ UNCHANGED <<mon, cluster, opts, brokers, pre_stop_tasks, post_stop_tasks,
                   n, connection, exc, wait, status, stdout, commands, trace>>

\* ask_confirmation lines 183-184 and run() line 288
AnswerYes ==
    /\ pc = "answered"
    /\ choice \in {"yes", "y"}
    /\ pc' = "command"
    /\ choice' = None
    /\ typed' = None
    /\ UNCHANGED <<mon, cluster, opts, brokers, pre_stop_tasks, post_stop_tasks,
                   n, connection, exc, wait, status, stdout, commands, trace>>

\* ask_confirmation lines 185-186: run() falls off its end
AnswerNo ==
    /\ pc = "answered"
    /\ choice \in {"no", "n"}
    /\ Exit(0)
    /\ choice' = None
    /\ typed' = None
    /\ UNCHANGED <<mon, cluster, opts, brokers, pre_stop_tasks, post_stop_tasks,
                   n, connection, exc, wait, stdout, commands, trace>>

\* ask_confirmation lines 187-188: prompt again
AnswerOther ==
    /\ pc = "answered"
    /\ choice \notin {"yes", "y", "no", "n"}
    /\ pc' = "confirm"
    /\ choice' = None
    /\ typed' = None
    /\ UNCHANGED <<mon, cluster, opts, brokers, pre_stop_tasks, post_stop_tasks,
                   n, connection, exc, wait, status, stdout, commands, trace>>

(* ------------------------------------------------------------------ *)
(* Helpers of the rolling loop that live outside the two source files   *)
(* ------------------------------------------------------------------ *)
\* execute_task(tasks, host): the tasks run on host in list order; failed is
\* the position of the task that raises TaskFailedException, 0 when none does
Failed(op) == IF op = "pre_stop" THEN "pre_stop_failed" ELSE "post_stop_failed"

execute_task(tasks, h, op, failed) ==
    IF failed = 0
    THEN [j \in 1 .. Len(tasks) |-> Event(op, h, j)]
    ELSE [j \in 1 .. failed |->
            IF j = failed THEN Event(Failed(op), h, j) ELSE Event(op, h, j)]

\* the hosts that may be unhealthy (unreachable, or with under replicated
\* partitions) during one poll cycle: none, or one broker of the cluster
DownChoices == {{}} \cup {{cluster[i][2]} : i \in 1 .. Len(cluster)}

(* ------------------------------------------------------------------ *)
(* rolling_decommission.py                                             *)
(* ------------------------------------------------------------------ *)
\* decommission_broker(host, connection, stop_command, verbose): the commands
\* it executes over the connection; the body is "pass"
decommission_broker(h, conn, stop_command) == <<>>

\* line 80
all_hosts == [i \in 1 .. Len(brokers) |-> brokers[i][2]]

\* line 81: all_hosts[skip:]
ProcessedHosts == SliceFrom(all_hosts, opts.skip)

\* faulty variant of line 81: the loop goes over all_hosts, not all_hosts[skip:]
host_unskipped == all_hosts[n + 1]

\* line 81: the host of the current iteration
host == ProcessedHosts[n + 1]

\* line 90
\* faulty variant: the first broker is not treated specially
RequiredCount_always_check_count(k, check_count) == check_count

RequiredCount(k, check_count) == IF k = 0 THEN 1 ELSE check_count

\* the frame of a call of wait_for_stable_cluster(hosts, ..., check_count, ...)
Call(hosts, check_count, ret) ==
    [ hosts |-> hosts, required |-> check_count, stable_counter |-> 0,
      elapsed |-> 0, probed |-> {}, down |-> {}, recent |-> <<>>, ret |-> ret ]

\* run() line 291: opts.command(...) is entered
Command ==
    /\ pc = "command"
    /\ pc' = "for"
    /\ n' = 0
    /\ stdout' = Append(stdout, Event("Execute rolling command", 0, 0))
    /\ UNCHANGED <<mon, typed, cluster, opts, brokers, pre_stop_tasks, post_stop_tasks, choice,
                   connection, exc, wait, status, commands, trace>>

\* line 81: the for loop takes its next host
ForNext ==
    /\ pc = "for"
    /\ n < Len(ProcessedHosts)
    /\ pc' = "ssh"
    /\ UNCHANGED <<mon, typed, cluster, opts, brokers, pre_stop_tasks, post_stop_tasks, choice,
                   n, connection, exc, wait, status, stdout, commands, trace>>

\* line 81: the for loop is exhausted
ForDone ==
    /\ pc = "for"
    /\ n >= Len(ProcessedHosts)
    /\ pc' = "final_wait"
    /\ UNCHANGED <<mon, typed, cluster, opts, brokers, pre_stop_tasks, post_stop_tasks, choice,
                   n, connection, exc, wait, status, stdout, commands, trace>>

\* lines 82-83: the session is opened
SshEnter ==
    /\ pc = "ssh"
    /\ connection' = connection \cup {host}
    /\ trace' = Append(trace, Event("ssh_open", host, n))
    /\ pc' = "pre_stop"
    /\ UNCHANGED <<mon, typed, cluster, opts, brokers, pre_stop_tasks, post_stop_tasks, choice,
                   n, exc, wait, status, stdout, commands>>

\* lines 82-83: the session cannot be opened and ssh() raises
SshError ==
    /\ pc = "ssh"
    /\ exc' = "SshError"
    /\ trace' = Append(trace, Event("ssh_failed", host, n))
    /\ pc' = "except"
    /\ UNCHANGED <<mon, typed, cluster, opts, brokers, pre_stop_tasks, post_stop_tasks, choice,
                   n, connection, wait, status, stdout, commands>>

\* faulty variant of line 84 and what follows: the wait is left out
PreStopOk_no_wait ==
    /\ pc = "pre_stop"
    /\ trace' = trace \o execute_task(pre_stop_tasks, host, "pre_stop", 0)
    /\ pc' = "stop"
    /\ UNCHANGED <<mon, typed, cluster, opts, brokers, pre_stop_tasks, post_stop_tasks, choice,
                   n, connection, exc, wait, status, stdout, commands>>

\* line 84, no task raises
PreStopOk ==
    /\ pc = "pre_stop"
    /\ trace' = trace \o execute_task(pre_stop_tasks, host, "pre_stop", 0)
    /\ pc' = "wait"
    /\ UNCHANGED <<mon, typed, cluster, opts, brokers, pre_stop_tasks, post_stop_tasks, choice,
                   n, connection, exc, wait, status, stdout, commands>>

\* line 84, a task raises TaskFailedException
PreStopFailed ==
    /\ pc = "pre_stop"
    /\ \E failed \in 1 .. Len(pre_stop_tasks) :
          trace' = trace \o execute_task(pre_stop_tasks, host, "pre_stop", failed)
    /\ exc' = "TaskFailedException"
    /\ pc' = "ssh_exit"
    /\ UNCHANGED <<mon, typed, cluster, opts, brokers, pre_stop_tasks, post_stop_tasks, choice,
                   n, connection, wait, status, stdout, commands>>

\* lines 85-92: wait_for_stable_cluster is called inside the loop
WaitCall ==
    /\ pc = "wait"
    /\ wait' = Call(all_hosts, RequiredCount(n, opts.check_count), "stop")
    /\ trace' = Append(trace, Event("wait", host, RequiredCount(n, opts.check_count)))
    /\ pc' = "polling"
    /\ UNCHANGED <<mon, typed, cluster, opts, brokers, pre_stop_tasks, post_stop_tasks, choice,
                   n, connection, exc, status, stdout, commands>>

\* lines 93-94
Stop ==
    /\ pc = "stop"
    /\ stdout' = Append(stdout, Event("Stopping", host, n + 1))
    /\ commands' = commands \o decommission_broker(host, connection, "stop_command")
    /\ trace' = Append(trace, Event("stop", host, n))
    /\ pc' = "post_stop"
    /\ UNCHANGED <<mon, typed, cluster, opts, brokers, pre_stop_tasks, post_stop_tasks, choice,
                   n, connection, exc, wait, status>>

\* line 95, no task raises
PostStopOk ==
    /\ pc = "post_stop"
    /\ trace' = trace \o execute_task(post_stop_tasks, host, "post_stop", 0)
    /\ pc' = "ssh_exit"
    /\ UNCHANGED <<mon, typed, cluster, opts, brokers, pre_stop_tasks, post_stop_tasks, choice,
                   n, connection, exc, wait, status, stdout, commands>>

\* faulty variant of line 95: the failure of a task is not propagated
PostStopFailed_ignored ==
    /\ pc = "post_stop"
    /\ \E failed \in 1 .. Len(post_stop_tasks) :
          trace' = trace \o execute_task(post_stop_tasks, host, "post_stop", failed)
    /\ pc' = "ssh_exit"
    /\ UNCHANGED <<mon, typed, cluster, opts, brokers, pre_stop_tasks, post_stop_tasks, choice,
                   n, connection, exc, wait, status, stdout, commands>>

\* line 95, a task raises TaskFailedException
PostStopFailed ==
    /\ pc = "post_stop"
    /\ \E failed \in 1 .. Len(post_stop_tasks) :
          trace' = trace \o execute_task(post_stop_tasks, host, "post_stop", failed)
    /\ exc' = "TaskFailedException"
    /\ pc' = "ssh_exit"
    /\ UNCHANGED <<mon, typed, cluster, opts, brokers, pre_stop_tasks, post_stop_tasks, choice,
                   n, connection, wait, status, stdout, commands>>

\* faulty variant of lines 82-95: the session is closed only when the body
\* of the with block ended without an exception
SshExit_leak ==
    /\ pc = "ssh_exit"
    /\ connection' = IF exc = None THEN connection \ {host} ELSE connection
    /\ trace' = Append(trace, Event("ssh_close", host, n))
    /\ IF exc = None
       THEN /\ n' = n + 1
            /\ pc' = "for"
       ELSE /\ n' = n
            /\ pc' = "except"
    /\ UNCHANGED <<mon, typed, cluster, opts, brokers, pre_stop_tasks, post_stop_tasks, choice,
                   exc, wait, status, stdout, commands>>

\* lines 82-95: the with block is left and the session is closed; the loop
\* goes on when no exception is propagating
SshExit ==
    /\ pc = "ssh_exit"
    /\ connection' = connection \ {host}
    /\ trace' = Append(trace, Event("ssh_close", host, n))
    /\ IF exc = None
       THEN /\ n' = n + 1
            /\ pc' = "for"
       ELSE /\ n' = n
            /\ pc' = "except"
    /\ UNCHANGED <<mon, typed, cluster, opts, brokers, pre_stop_tasks, post_stop_tasks, choice,
                   exc, wait, status, stdout, commands>>

\* faulty variant of lines 96-104: the final wait requires one cycle only
FinalWaitCall_once ==
    /\ pc = "final_wait"
    /\ wait' = Call(all_hosts, 1, "return")
    /\ trace' = Append(trace, Event("wait", 0, 1))
    /\ pc' = "polling"
    /\ UNCHANGED <<mon, typed, cluster, opts, brokers, pre_stop_tasks, post_stop_tasks, choice,
                   n, connection, exc, status, stdout, commands>>

\* lines 96-104: the wait before terminating the script
FinalWaitCall ==
    /\ pc = "final_wait"
    /\ wait' = Call(all_hosts, opts.check_count, "return")
    /\ trace' = Append(trace, Event("wait", 0, opts.check_count))
    /\ pc' = "polling"
    /\ UNCHANGED <<mon, typed, cluster, opts, brokers, pre_stop_tasks, post_stop_tasks, choice,
                   n, connection, exc, status, stdout, commands>>

\* execute_rolling_decommission returns and run() ends
Return ==
    /\ pc = "return"
    /\ Exit(0)
    /\ UNCHANGED <<mon, typed, cluster, opts, brokers, pre_stop_tasks, post_stop_tasks, choice,
                   n, connection, exc, wait, stdout, commands, trace>>

(* ------------------------------------------------------------------ *)
(* wait_for_stable_cluster                                             *)
(* ------------------------------------------------------------------ *)
\* the time one poll cycle may take, in the unit of the time limit
TimeTaken == {0, 1}

\* the time since the call started, d later; past the deadline it is only
\* known to be past it
Advance(t, d) ==
    IF t + d > opts.unhealthy_time_limit
    THEN opts.unhealthy_time_limit + 1
    ELSE t + d

\* the outcomes of the last `required' poll cycles, the latest last
Recent(recent, healthy, required) ==
    LET all == Append(recent, healthy)
    IN IF Len(all) > required
       THEN SubSeq(all, Len(all) - required + 1, Len(all))
       ELSE all

\* faulty variant: an unhealthy cycle leaves the counter as it is
PollCycle_no_reset ==
    /\ pc = "polling"
    /\ \E down \in DownChoices, took \in TimeTaken :
          LET probed == Range(wait.hosts)
              healthy == probed \cap down = {}
          IN wait' = [wait EXCEPT !.probed = probed,
                                  !.down = down,
                                  !.elapsed = Advance(@, took),
                                  !.recent = Recent(@, healthy, wait.required),
                                  !.stable_counter = IF healthy THEN @ + 1 ELSE @]
    /\ pc' = "polled"
    /\ UNCHANGED <<mon, typed, cluster, opts, brokers, pre_stop_tasks, post_stop_tasks, choice,
                   n, connection, exc, status, stdout, commands, trace>>

\* one poll cycle: every host of the call is probed; the cycle is healthy
\* when every probed host answers and reports no under replicated partition
PollCycle ==
    /\ pc = "polling"
    /\ \E down \in DownChoices, took \in TimeTaken :
          LET probed == Range(wait.hosts)
              healthy == probed \cap down = {}
          IN wait' = [wait EXCEPT !.probed = probed,
                                  !.down = down,
                                  !.elapsed = Advance(@, took),
                                  !.recent = Recent(@, healthy, wait.required),
                                  !.stable_counter = IF healthy THEN @ + 1 ELSE 0]
    /\ pc' = "polled"
    /\ UNCHANGED <<mon, typed, cluster, opts, brokers, pre_stop_tasks, post_stop_tasks, choice,
                   n, connection, exc, status, stdout, commands, trace>>

\* the counter has reached the required count: the call returns
WaitStable ==
    /\ pc = "polled"
    /\ wait.stable_counter >= wait.required
    /\ trace' = Append(trace, Event("stable", 0, wait.stable_counter))
    /\ pc' = wait.ret
    /\ wait' = Idle
    /\ UNCHANGED <<mon, typed, cluster, opts, brokers, pre_stop_tasks, post_stop_tasks, choice,
                   n, connection, exc, status, stdout, commands>>

\* the time limit is exceeded: the call raises WaitTimeoutException
WaitTimedOut ==
    /\ pc = "polled"
    /\ wait.stable_counter < wait.required
    /\ wait.elapsed > opts.unhealthy_time_limit
    /\ trace' = Append(trace, Event("timeout", 0, wait.stable_counter))
    /\ exc' = "WaitTimeoutException"
    /\ pc' = IF wait.ret = "stop" THEN "ssh_exit" ELSE "except"
    /\ wait' = Idle
    /\ UNCHANGED <<mon, typed, cluster, opts, brokers, pre_stop_tasks, post_stop_tasks, choice,
                   n, connection, status, stdout, commands>>

\* neither: sleep check_interval seconds and poll again
WaitSleep ==
    /\ pc = "polled"
    /\ wait.stable_counter < wait.required
    /\ wait.elapsed <= opts.unhealthy_time_limit
    /\ wait' = [wait EXCEPT !.elapsed = Advance(@, opts.check_interval)]
    /\ pc' = "polling"
    /\ UNCHANGED <<mon, typed, cluster, opts, brokers, pre_stop_tasks, post_stop_tasks, choice,
                   n, connection, exc, status, stdout, commands, trace>>

(* ------------------------------------------------------------------ *)
(* run(): the exception handlers                                       *)
(* ------------------------------------------------------------------ *)
\* lines 306-308
ExceptTaskFailed ==
    /\ pc = "except"
    /\ exc = "TaskFailedException"
    /\ stdout' = Append(stdout, Event("ERROR: pre/post tasks failed, exiting", 0, 0))
    /\ Exit(1)
    /\ UNCHANGED <<mon, typed, cluster, opts, brokers, pre_stop_tasks, post_stop_tasks, choice,
                   n, connection, exc, wait, commands, trace>>

\* faulty variant of lines 309-311: the timeout is reported and the process
\* ends as if the run had completed
ExceptWaitTimeout_status0 ==
    /\ pc = "except"
    /\ exc = "WaitTimeoutException"
    /\ stdout' = Append(stdout, Event("ERROR: cluster is still unhealthy, exiting", 0, 0))
    /\ Exit(0)
    /\ UNCHANGED <<mon, typed, cluster, opts, brokers, pre_stop_tasks, post_stop_tasks, choice,
                   n, connection, exc, wait, commands, trace>>

\* lines 309-311
ExceptWaitTimeout ==
    /\ pc = "except"
    /\ exc = "WaitTimeoutException"
    /\ stdout' = Append(stdout, Event("ERROR: cluster is still unhealthy, exiting", 0, 0))
    /\ Exit(1)
    /\ UNCHANGED <<mon, typed, cluster, opts, brokers, pre_stop_tasks, post_stop_tasks, choice,
                   n, connection, exc, wait, commands, trace>>

\* no handler matches: the interpreter prints the traceback and exits with 1
Uncaught ==
    /\ pc = "except"
    /\ exc \notin {"TaskFailedException", "WaitTimeoutException"}
    /\ stdout' = Append(stdout, Event("Traceback", 0, 0))
    /\ Exit(1)
    /\ UNCHANGED <<mon, typed, cluster, opts, brokers, pre_stop_tasks, post_stop_tasks, choice,
                   n, connection, exc, wait, commands, trace>>

(* ------------------------------------------------------------------ *)
(* Specification                                                       *)
(* ------------------------------------------------------------------ *)
Next ==
    \/ BrokerIdsRejected
    \/ BrokerIdsApplied
    \/ BrokerIdsAbsent
    \/ OptsRejected
    \/ OptsAccepted
    \/ NoTasks
    \/ LoadTasks
    \/ NoConfirm
    \/ Prompt
    \/ AnswerYes
    \/ AnswerNo
    \/ AnswerOther
    \/ Command
    \/ ForNext
    \/ ForDone
    \/ SshEnter
    \/ SshError
    \/ PreStopOk
    \/ PreStopFailed
    \/ WaitCall
    \/ PollCycle
    \/ WaitStable
    \/ WaitTimedOut
    \/ WaitSleep
    \/ Stop
    \/ PostStopOk
    \/ PostStopFailed
    \/ SshExit
    \/ FinalWaitCall
    \/ Return
    \/ ExceptTaskFailed
    \/ ExceptWaitTimeout
    \/ Uncaught

Spec == Init /\ [][Next]_vars

\* a poll cycle during which the clock of the wait moves on
ClockAdvances == PollCycle /\ wait'.elapsed > wait.elapsed

\* run() at line 290, about to call the rolling command: no --broker-ids,
\* --no-confirm, options that validate_opts accepts, the tasks loaded
InitCommand ==
    /\ \E num \in 1 .. MaxBrokers : cluster = get_broker_list(num)
    /\ opts \in {o \in [ broker_ids : {<<>>},
                         skip : Skips,
                         check_count : CheckCounts,
                         unhealthy_time_limit : TimeLimits,
                         check_interval : CheckIntervals,
                         task : TaskArgs,
                         no_confirm : {TRUE} ] : ~validate_opts(o, Len(cluster))}
    /\ brokers = cluster
    /\ pc = "command"
    /\ pre_stop_tasks =
          (IF opts.task = <<>> THEN <<>> ELSE get_task_class(opts.task, task_args_of(opts)).pre)
    /\ post_stop_tasks =
          (IF opts.task = <<>> THEN <<>> ELSE get_task_class(opts.task, task_args_of(opts)).post)
    /\ choice = None
    /\ typed = None
    /\ n = 0
    /\ connection = {}
    /\ exc = None
    /\ wait = Idle
    /\ status = -1
    /\ stdout = (IF opts.check_count = 0
                 THEN <<Event("Warning: no check will be performed", 0, 0)>>
                 ELSE <<>>)
    /\ commands = <<>>
    /\ trace = (IF opts.task = <<>> THEN <<>> ELSE <<Event("load_tasks", 0, Len(opts.task))>>)
    /\ mon = MonIdle

\* run() from line 290 on
NextCommand ==
    \/ Command
    \/ ForNext
    \/ ForDone
    \/ SshEnter
    \/ SshError
    \/ PreStopOk
    \/ PreStopFailed
    \/ WaitCall
    \/ PollCycle
    \/ WaitStable
    \/ WaitTimedOut
    \/ WaitSleep
    \/ Stop
    \/ PostStopOk
    \/ PostStopFailed
    \/ SshExit
    \/ FinalWaitCall
    \/ Return
    \/ ExceptTaskFailed
    \/ ExceptWaitTimeout
    \/ Uncaught

\* the process keeps running, and of the poll cycles of a wait that goes on
\* for ever some take time
FairSpec ==
    InitCommand /\ [][NextCommand]_vars /\ WF_vars(NextCommand) /\ SF_vars(ClockAdvances)

(* ------------------------------------------------------------------ *)
(* get_consumer_offsets_metadata (util.monitoring), as its tests use it *)
(* ------------------------------------------------------------------ *)
runvars == <<cluster, opts, pc, brokers, pre_stop_tasks, post_stop_tasks, choice,
             typed, n, connection, exc, wait, status, stdout, commands, trace>>

\* the topics of the mocked client and their partitions
MonTopics == {"topic1", "topic2", "something that doesn't exist"}

KnownPartitions(topic) ==
    CASE topic = "topic1" -> {0, 1, 2}
      [] topic = "topic2" -> {0, 1}
      [] OTHER -> {}

has_metadata_for_topic(topic) == topic \in {"topic1", "topic2"}

\* the requested partitions of one topic
MonPartitions == SUBSET {0, 1, 99}

MonEntries == [topic : MonTopics, partitions : MonPartitions]

\* the topics argument: one or two topics with the partitions asked for
MonRequests ==
    {<<e>> : e \in MonEntries}
        \cup {p \in MonEntries \X MonEntries : p[1].topic # p[2].topic}

\* how many of the first calls of load_metadata_for_topics raise
\* KafkaUnavailableError
MonUnavailable == 0 .. 3

\* a call of get_consumer_offsets_metadata(client, group, topics, raise_on_error)
MonCalls ==
    { [MonIdle EXCEPT !.pc = "load", !.topics = t, !.raise_on_error = r,
                      !.unavailable = u] :
        t \in MonRequests, r \in BOOLEAN, u \in MonUnavailable }

InitMon ==
    /\ mon \in MonCalls
    /\ cluster = <<>>
    /\ opts = [ broker_ids |-> <<>>, skip |-> 0, check_count |-> 0,
                unhealthy_time_limit |-> 0, check_interval |-> 0, task |-> <<>>,
                no_confirm |-> TRUE ]
    /\ brokers = <<>>
    /\ pc = "idle"
    /\ pre_stop_tasks = <<>>
    /\ post_stop_tasks = <<>>
    /\ choice = None
    /\ typed = None
    /\ n = 0
    /\ connection = {}
    /\ exc = None
    /\ wait = Idle
    /\ status = -1
    /\ stdout = <<>>
    /\ commands = <<>>
    /\ trace = <<>>

\* the first load_metadata_for_topics() succeeds
MonLoadOk ==
    /\ mon.pc = "load"
    /\ mon.unavailable = 0
    /\ mon' = [mon EXCEPT !.load_calls = @ + 1, !.pc = "verify"]
    /\ UNCHANGED runvars

\* the first load raises KafkaUnavailableError: the handler loads again
MonLoadUnavailable ==
    /\ mon.pc = "load"
    /\ mon.unavailable >= 1
    /\ mon' = [mon EXCEPT !.load_calls = @ + 1, !.pc = "retry"]
    /\ UNCHANGED runvars

MonRetryOk ==
    /\ mon.pc = "retry"
    /\ mon.unavailable = 1
    /\ mon' = [mon EXCEPT !.load_calls = @ + 1, !.pc = "verify"]
    /\ UNCHANGED runvars

\* faulty variant: the second failure is swallowed
MonRetryUnavailable_swallowed ==
    /\ mon.pc = "retry"
    /\ mon.unavailable >= 2
    /\ mon' = [mon EXCEPT !.load_calls = @ + 1, !.pc = "verify"]
    /\ UNCHANGED runvars

\* the load in the handler raises too: the error reaches the caller
MonRetryUnavailable ==
    /\ mon.pc = "retry"
    /\ mon.unavailable >= 2
    /\ mon' = [mon EXCEPT !.load_calls = @ + 1, !.pc = "raised",
                          !.error = "KafkaUnavailableError"]
    /\ UNCHANGED runvars

\* the topic being verified and the pairs it asks for
MonEntry == mon.topics[mon.k]

MonPairs(topic, partitions) == {<<topic, p>> : p \in partitions}

\* a requested topic the client has no metadata for
MonUnknownTopic ==
    /\ mon.pc = "verify"
    /\ mon.k <= Len(mon.topics)
    /\ ~has_metadata_for_topic(MonEntry.topic)
    /\ mon' = IF mon.raise_on_error
              THEN [mon EXCEPT !.pc = "raised", !.error = "UnknownTopic"]
              ELSE [mon EXCEPT !.k = @ + 1]
    /\ UNCHANGED runvars

\* faulty variant: without raise_on_error a topic with an unknown partition
\* is left out of the result
MonUnknownPartitions_drops_topic ==
    /\ mon.pc = "verify"
    /\ mon.k <= Len(mon.topics)
    /\ has_metadata_for_topic(MonEntry.topic)
    /\ MonEntry.partitions \ KnownPartitions(MonEntry.topic) # {}
    /\ mon' = IF mon.raise_on_error
              THEN [mon EXCEPT !.pc = "raised", !.error = "UnknownPartitions"]
              ELSE [mon EXCEPT !.k = @ + 1]
    /\ UNCHANGED runvars

\* a requested partition the topic does not have
MonUnknownPartitions ==
    /\ mon.pc = "verify"
    /\ mon.k <= Len(mon.topics)
    /\ has_metadata_for_topic(MonEntry.topic)
    /\ MonEntry.partitions \ KnownPartitions(MonEntry.topic) # {}
    /\ mon' = IF mon.raise_on_error
              THEN [mon EXCEPT !.pc = "raised", !.error = "UnknownPartitions"]
              ELSE [mon EXCEPT !.k = @ + 1,
                               !.result = @ \cup MonPairs(MonEntry.topic,
                                       MonEntry.partitions \cap KnownPartitions(MonEntry.topic))]
    /\ UNCHANGED runvars

MonValidTopic ==
    /\ mon.pc = "verify"
    /\ mon.k <= Len(mon.topics)
    /\ has_metadata_for_topic(MonEntry.topic)
    /\ MonEntry.partitions \subseteq KnownPartitions(MonEntry.topic)
    /\ mon' = [mon EXCEPT !.k = @ + 1,
                          !.result = @ \cup MonPairs(MonEntry.topic, MonEntry.partitions)]
    /\ UNCHANGED runvars

\* the offsets of the verified partitions are returned
MonReturn ==
    /\ mon.pc = "verify"
    /\ mon.k > Len(mon.topics)
    /\ mon' = [mon EXCEPT !.pc = "returned"]
    /\ UNCHANGED runvars

NextMon ==
    \/ MonLoadOk
    \/ MonLoadUnavailable
    \/ MonRetryOk
    \/ MonRetryUnavailable
    \/ MonUnknownTopic
    \/ MonUnknownPartitions
    \/ MonValidTopic
    \/ MonReturn

SpecMon == InitMon /\ [][NextMon]_vars

(* ------------------------------------------------------------------ *)
(* Properties                                                          *)
(* ------------------------------------------------------------------ *)
IsPrefix(s, t) == Len(s) <= Len(t) /\ \A i \in 1 .. Len(s) : s[i] = t[i]

ClusterHosts == {cluster[i][2] : i \in 1 .. Len(cluster)}

\* the events of the trace with the given operation
EventsOf(op) == LET is(e) == e.op = op IN SelectSeq(trace, is)

HostsOf(events) == [i \in 1 .. Len(events) |-> events[i].host]

\* the per-broker waits, in order (the final wait carries host 0)
LoopWaits == LET is(e) == e.op = "wait" /\ e.host # 0 IN SelectSeq(trace, is)

FinalWaits == LET is(e) == e.op = "wait" /\ e.host = 0 IN SelectSeq(trace, is)

\* the hosts at positions skip .. N-1 of the broker list handed to the command
Selected ==
    [i \in 1 .. (Len(brokers) - opts.skip) |-> brokers[opts.skip + i][2]]

\* the rolling command was entered
RanCommand == \E i \in 1 .. Len(stdout) : stdout[i].op = "Execute rolling command"

\* the rolling command returned and the process ended with status 0
Completed == pc = "exit" /\ status = 0 /\ RanCommand

FatalOps == {"pre_stop_failed", "post_stop_failed", "timeout", "ssh_failed"}

\* C1: every stop operation is immediately preceded by a stability wait of
\* its own broker that was started after everything done before, and that
\* returned stable with at least the required consecutive count (1 for the
\* first processed broker, check_count for every later one)
C1_StopAfterFreshWait ==
    \A i \in 1 .. Len(trace) :
        trace[i].op = "stop" =>
            /\ i > 2
            /\ trace[i - 1].op = "stable"
            /\ trace[i - 2].op = "wait"
            /\ trace[i - 2].host = trace[i].host
            /\ trace[i - 2].k = (IF trace[i].k = 0 THEN 1 ELSE opts.check_count)
            /\ trace[i - 1].k >= trace[i - 2].k

\* C1 witness: a second broker was stopped after a wait for two consecutive
\* healthy cycles
C1_Witness ==
    /\ opts.check_count = 2
    /\ \E i \in 1 .. Len(trace) : trace[i].op = "stop" /\ trace[i].k = 1

\* C2: in every poll cycle all brokers of the cluster are probed, and the
\* cycle counts as healthy only when no broker of the cluster is down
C2_AllClusterProbed ==
    pc = "polled" =>
        /\ wait.probed = ClusterHosts
        /\ (wait.stable_counter > 0 => wait.down = {})

\* C3: the stop operations go to the brokers at positions skip..N-1, in list
\* order and each at most once; a run in which nothing fails stops all of
\* them; the first per-broker wait requires 1, the later ones check_count
C3_SkipAndCounts ==
    RanCommand =>
        /\ IsPrefix(HostsOf(EventsOf("stop")), Selected)
        /\ (Completed => HostsOf(EventsOf("stop")) = Selected)
        /\ IsPrefix(HostsOf(LoopWaits), Selected)
        /\ \A j \in 1 .. Len(LoopWaits) :
              LoopWaits[j].k = (IF j = 1 THEN 1 ELSE opts.check_count)

\* C3 witness: three brokers, skip 1, check_count 2, run completed
C3_Witness ==
    /\ Completed
    /\ Len(brokers) = 3
    /\ opts.skip = 1
    /\ opts.check_count = 2

\* C4: after a failed hook, a timed out wait or a failed session nothing
\* more is done: the only event that may follow is the closing of the
\* session that was open at that moment
C4_AbortStopsEverything ==
    \A i \in 1 .. Len(trace) :
        trace[i].op \in FatalOps =>
            /\ Len(trace) <= i + 1
            /\ \A j \in (i + 1) .. Len(trace) :
                  /\ trace[j].op = "ssh_close"
                  /\ \E m \in 1 .. (i - 1) :
                        /\ trace[m].op = "ssh_open"
                        /\ trace[m].host = trace[j].host
                        /\ \A q \in (m + 1) .. (i - 1) : trace[q].op # "ssh_open"

\* C4 witness: a post stop task failed on the first of several brokers and
\* the process has ended
C4_Witness ==
    /\ RanCommand
    /\ pc = "exit"
    /\ status = 1
    /\ Len(Selected) >= 2
    /\ \E i \in 1 .. Len(trace) :
          trace[i].op = "post_stop_failed" /\ trace[i].host = Selected[1]

\* C5: a run in which nothing fails executes the stop command once on each
\* processed host, in list order, and no other command
C5_StopCommandPerBroker ==
    Completed =>
        commands = [i \in 1 .. Len(Selected) |-> <<Selected[i], "stop_command">>]

\* C6: the final wait is called once, after the session of the last
\* processed broker was closed, with check_count; the run completes only
\* when it returned stable, and ends with status 1 when it timed out
C6_FinalWait ==
    /\ Len(FinalWaits) <= 1
    /\ \A i \in 1 .. Len(trace) :
          (trace[i].op = "wait" /\ trace[i].host = 0) =>
              /\ trace[i].k = opts.check_count
              /\ HostsOf(EventsOf("ssh_close")) = Selected
              /\ i > 1 => trace[i - 1].op = "ssh_close"
    /\ Completed =>
          /\ Len(trace) >= 2
          /\ trace[Len(trace)].op = "stable"
          /\ trace[Len(trace)].k >= opts.check_count
          /\ trace[Len(trace) - 1].op = "wait"
          /\ trace[Len(trace) - 1].host = 0
    /\ (pc = "exit" /\ Len(trace) > 0 /\ trace[Len(trace)].op = "timeout") => status = 1

\* C6 witness: a run completed with check_count 2 after stopping a broker
C6_Witness ==
    /\ Completed
    /\ opts.check_count = 2
    /\ Len(EventsOf("stop")) >= 1

\* C7: with check_count 0 no wait of the run times out
C7_NoTimeoutWithoutChecks ==
    opts.check_count = 0 => (exc # "WaitTimeoutException" /\ EventsOf("timeout") = <<>>)

\* C8: when the options are not valid the process ends with status 1 and
\* nothing was loaded, asked, probed, opened or stopped; an empty broker
\* list is never accepted
C8_InvalidOptsExit ==
    LET invalid == \/ opts.skip < 0
                   \/ opts.skip >= Len(brokers)
                   \/ opts.check_count < 0
                   \/ opts.unhealthy_time_limit < 0
                   \/ opts.check_interval < 0
                   \/ Len(brokers) = 0
    IN (invalid /\ pc \notin {"broker_ids", "validate_opts"}) =>
          /\ pc = "exit"
          /\ status = 1
          /\ trace = <<>>
          /\ commands = <<>>
          /\ connection = {}
          /\ choice = None
          /\ wait = Idle
          /\ pre_stop_tasks = <<>>
          /\ post_stop_tasks = <<>>

\* C8 witness: skip equal to the number of brokers, all else valid, rejected
C8_Witness ==
    /\ pc = "exit"
    /\ status = 1
    /\ Len(brokers) > 0
    /\ opts.skip = Len(brokers)
    /\ opts.check_count >= 0
    /\ opts.unhealthy_time_limit >= 0
    /\ opts.check_interval >= 0
    /\ opts.broker_ids = <<>>

\* C9: validate_broker_ids_subset is true exactly when every requested id
\* is an id of the cluster; with an absent id the process ends with status 1
\* with the broker list unfiltered and nothing done
C9_SubsetValidation ==
    LET cluster_ids == {cluster[i][1] : i \in 1 .. Len(cluster)}
        all_present == \A i \in 1 .. Len(opts.broker_ids) : opts.broker_ids[i] \in cluster_ids
    IN /\ validate_broker_ids_subset(IdsOf(cluster), opts.broker_ids) <=> all_present
       /\ (~all_present /\ pc # "broker_ids") =>
             /\ pc = "exit"
             /\ status = 1
             /\ brokers = cluster
             /\ trace = <<>>
             /\ commands = <<>>
             /\ connection = {}

\* C9 witness: the first requested id is absent, the second is present, and
\* the process has ended
C9_Witness ==
    /\ pc = "exit"
    /\ status = 1
    /\ Len(cluster) >= 1
    /\ opts.broker_ids = <<MaxBrokers + 1, 1>>

\* C10: a task reference that resolves to neither task class ends the
\* process with status 1 when the tasks are loaded
C10_UnresolvedTaskExits ==
    LET unresolved(func) == \A c \in Range(tasks_classes) : dynamic_import(func, c) = None
    IN ((\E func \in Range(opts.task) : unresolved(func))
        /\ pc \notin {"broker_ids", "validate_opts", "tasks"}) =>
           (pc = "exit" /\ status = 1 /\ ~RanCommand)

\* the answers that are yes or y, and no or n, in any letter case
YesTyped == {"yes", "Yes", "YES", "y", "Y"}

NoTyped == {"no", "No", "NO", "n", "N"}

\* C11: without --no-confirm the command is entered only from a yes answer,
\* and a yes answer enters it; a no answer ends the process with status 0
\* and nothing done to a broker; any other answer leads back to the prompt
C11_Confirmation ==
    [][ /\ (pc # "command" /\ pc' = "command") =>
              \/ opts.no_confirm
              \/ pc = "answered" /\ typed \in YesTyped
        /\ (pc = "answered" /\ typed \in YesTyped) => pc' = "command"
        /\ (pc = "answered" /\ typed \in NoTyped) =>
              /\ pc' = "exit"
              /\ status' = 0
              /\ trace' = trace
              /\ EventsOf("ssh_open") = <<>>
              /\ EventsOf("wait") = <<>>
              /\ EventsOf("stop") = <<>>
              /\ connection' = {}
              /\ commands' = <<>>
        /\ (pc = "answered" /\ typed \notin (YesTyped \cup NoTyped)) =>
              /\ pc' = "confirm"
              /\ trace' = trace
        /\ (pc = "confirm" /\ ~opts.no_confirm) => pc' = "answered"
      ]_vars

\* C11 witness: the command is about to start after the operator confirmed
C11_Witness ==
    /\ pc = "command"
    /\ ~opts.no_confirm

\* C12: when the run aborts on a failed pre/post task at a broker, some line
\* printed since the command started names that broker
C12_OutcomeNamesBroker ==
    (pc = "exit" /\ exc = "TaskFailedException") =>
        \E i \in 1 .. Len(stdout) : stdout[i].host = host

\* the pairs of the request, and those of them that exist
MonRequested ==
    UNION {MonPairs(mon.topics[i].topic, mon.topics[i].partitions) : i \in 1 .. Len(mon.topics)}

MonExisting == {tp \in MonRequested : tp[2] \in KnownPartitions(tp[1])}

MonEnded == mon.pc \in {"raised", "returned"}

\* C13: a call whose loads all fail with KafkaUnavailableError ends having
\* called load_metadata_for_topics exactly twice, with KafkaUnavailableError
\* raised to the caller; no call loads more than twice
C13_OneRetry ==
    /\ mon.load_calls <= 2
    /\ (MonEnded /\ mon.unavailable >= 2) =>
          /\ mon.load_calls = 2
          /\ mon.pc = "raised"
          /\ mon.error = "KafkaUnavailableError"
          /\ mon.result = {}

\* C13 witness: a call with every load failing has ended
C13_Witness ==
    /\ MonEnded
    /\ mon.unavailable = 3
    /\ mon.load_calls = 2

\* the requested topics without metadata, and those asking for a partition
\* the topic does not have
MonUnknownTopics ==
    {i \in 1 .. Len(mon.topics) : ~has_metadata_for_topic(mon.topics[i].topic)}

MonBadPartitions ==
    {i \in 1 .. Len(mon.topics) :
        /\ has_metadata_for_topic(mon.topics[i].topic)
        /\ mon.topics[i].partitions \ KnownPartitions(mon.topics[i].topic) # {}}

\* C14: once the metadata is loaded, with raise_on_error an unknown topic
\* raises UnknownTopic and an unknown partition raises UnknownPartitions,
\* whatever else the request holds; without it nothing is raised and the
\* result holds exactly the requested partitions that exist
C14_UnknownTopicsAndPartitions ==
    (MonEnded /\ mon.unavailable < 2) =>
        IF mon.raise_on_error
        THEN /\ (MonUnknownTopics \cup MonBadPartitions # {}) =>
                    /\ mon.pc = "raised"
                    /\ mon.error \in {"UnknownTopic", "UnknownPartitions"}
             /\ (MonUnknownTopics # {} /\ MonBadPartitions = {}) =>
                    mon.error = "UnknownTopic"
             /\ (MonBadPartitions # {} /\ MonUnknownTopics = {}) =>
                    mon.error = "UnknownPartitions"
             /\ (MonUnknownTopics \cup MonBadPartitions = {}) =>
                    /\ mon.pc = "returned"
                    /\ mon.error = None
                    /\ mon.result = MonRequested
        ELSE /\ mon.pc = "returned"
             /\ mon.error = None
             /\ mon.result = MonExisting

\* C14 witness: {'topic1': [1, 99]} without raise_on_error returned the
\* offsets of partition 1 only
C14_Witness ==
    /\ mon.pc = "returned"
    /\ ~mon.raise_on_error
    /\ mon.topics = <<[topic |-> "topic1", partitions |-> {1, 99}]>>
    /\ mon.result = {<<"topic1", 1>>}

\* the parts of the phase order that do not involve the wait
PhaseOrderAfterPreStop ==
    \A i \in 1 .. Len(trace) :
        /\ trace[i].op = "stop" =>
              /\ Cardinality({j \in 1 .. (i - 1) :
                     trace[j].op = "pre_stop" /\ trace[j].host = trace[i].host})
                    = Len(pre_stop_tasks)
              /\ \A j \in 1 .. (i - 1) : trace[j].op # "pre_stop_failed"
        /\ trace[i].op \in {"post_stop", "post_stop_failed"} =>
              \E j \in 1 .. (i - 1) :
                  trace[j].op = "stop" /\ trace[j].host = trace[i].host

\* C15: a pre-stop task runs on a broker only after the wait of that broker
\* returned stable, the stop runs only after all pre-stop tasks of the
\* broker succeeded, and a post-stop task only after the stop of the broker
C15_PhaseOrder ==
    /\ \A i \in 1 .. Len(trace) :
          trace[i].op \in {"pre_stop", "pre_stop_failed"} =>
              \E j \in 1 .. (i - 1) :
                  /\ trace[j].op = "wait"
                  /\ trace[j].host = trace[i].host
                  /\ \E l \in (j + 1) .. (i - 1) : trace[l].op = "stable"
    /\ PhaseOrderAfterPreStop

\* C16: while a remote session is open the run is at the stop operation of
\* that broker, or leaving the session
C16_SessionOnlyDuringStop ==
    connection # {} =>
        /\ connection = {host}
        /\ pc \in {"stop", "ssh_exit"}

\* C17: at most one session is open, that of the broker being processed;
\* none is open between two brokers, during the final wait, in the
\* exception handlers of run() or when the process has ended
C17_SessionClosed ==
    /\ Cardinality(connection) <= 1
    /\ connection # {} =>
          /\ connection = {host}
          /\ pc \in {"pre_stop", "wait", "polling", "polled", "stop", "post_stop",
                     "ssh_exit"}
          /\ wait.ret # "return"
    /\ pc \in {"for", "ssh", "final_wait", "return", "except", "exit"} =>
          connection = {}

\* C17 witness: the run ended on a task failure or a timeout at its second
\* broker, after the session of the first was opened and closed
C17_Witness ==
    /\ pc = "exit"
    /\ exc \in {"TaskFailedException", "WaitTimeoutException"}
    /\ n = 1
    /\ Len(EventsOf("ssh_open")) = 2
    /\ Len(EventsOf("ssh_close")) = 2
    /\ connection = {}

\* C18: a poll cycle with a host down sets the counter to 0 and a healthy
\* one adds 1 to it; nothing else changes it during a wait; a wait that
\* requires c >= 1 returns stable only when the last c cycles were healthy
C18_ConsecutiveHealthy ==
    [][ /\ (pc = "polling" /\ pc' = "polled") =>
              wait'.stable_counter =
                  (IF wait'.probed \cap wait'.down # {} THEN 0 ELSE wait.stable_counter + 1)
        /\ (pc = "polled" /\ pc' = "polling") =>
              wait'.stable_counter = wait.stable_counter
        /\ (/\ pc = "polled"
            /\ wait.required >= 1
            /\ Len(trace') > Len(trace)
            /\ trace'[Len(trace')].op = "stable") =>
              /\ Len(wait.recent) = wait.required
              /\ \A i \in 1 .. Len(wait.recent) : wait.recent[i]
      ]_vars

\* C18 witness: a wait for two healthy cycles saw a healthy cycle and then
\* an unhealthy one, and its counter is 0
C18_Witness ==
    /\ pc = "polled"
    /\ wait.required = 2
    /\ wait.recent = <<TRUE, FALSE>>
    /\ wait.stable_counter = 0

\* every wait has ended stable or timed out, or is still polling; a timeout
\* is followed by nothing but the closing of the open session and ends the
\* process with status 1
WaitEndsOnce ==
    /\ \A i \in 1 .. Len(trace) :
          /\ trace[i].op = "wait" =>
                IF i = Len(trace)
                THEN pc \in {"polling", "polled"}
                ELSE trace[i + 1].op \in {"stable", "timeout"}
          /\ trace[i].op \in {"stable", "timeout"} => (i > 1 /\ trace[i - 1].op = "wait")
          /\ trace[i].op = "timeout" =>
                /\ exc = "WaitTimeoutException"
                /\ wait = Idle
                /\ pc \in {"ssh_exit", "except", "exit"}
                /\ pc = "exit" => status = 1
                /\ \A j \in (i + 1) .. Len(trace) : trace[j].op = "ssh_close"
    /\ pc \in {"polling", "polled"} =>
          (Len(trace) > 0 /\ trace[Len(trace)].op = "wait")

\* a wait past its time limit without the required count does not poll again
TimeoutIsFinal ==
    [][ (/\ pc = "polled"
         /\ wait.stable_counter < wait.required
         /\ wait.elapsed > opts.unhealthy_time_limit) =>
            /\ exc' = "WaitTimeoutException"
            /\ wait' = Idle
            /\ trace' = Append(trace, Event("timeout", 0, wait.stable_counter))
      ]_vars

\* C19: every wait ends stable or timed out and never both; past the time
\* limit without the required count it raises WaitTimeoutException and polls
\* no more, and the process ends with status 1; every run that entered the
\* rolling command ends, whatever the cluster does
C19_WaitTerminates ==
    /\ []WaitEndsOnce
    /\ TimeoutIsFinal
    /\ (pc = "command") ~> (pc = "exit")

\* C19 witness: the wait of the second broker timed out with the cluster
\* never healthy during it, and the process has ended
C19_Witness ==
    /\ pc = "exit"
    /\ status = 1
    /\ n = 1
    /\ trace[Len(trace) - 1].op = "timeout"
    /\ trace[Len(trace) - 1].k = 0

HookOps == {"pre_stop", "pre_stop_failed", "post_stop", "post_stop_failed"}

\* the events of running a list of tasks once on every processed broker
OncePerBroker(op, tasks) ==
    [q \in 1 .. (Len(Selected) * Len(tasks)) |->
        Event(op, Selected[((q - 1) \div Len(tasks)) + 1], ((q - 1) % Len(tasks)) + 1)]

\* C20: tasks run only on processed brokers; a run in which nothing fails
\* has run every pre-stop task and every post-stop task once on each
\* processed broker, in order; after a task failed no task runs again and
\* the process ends with status 1
C20_HooksOncePerBroker ==
    RanCommand =>
        /\ \A i \in 1 .. Len(trace) :
              trace[i].op \in HookOps => trace[i].host \in Range(Selected)
        /\ Completed =>
              /\ EventsOf("pre_stop") = OncePerBroker("pre_stop", pre_stop_tasks)
              /\ EventsOf("post_stop") = OncePerBroker("post_stop", post_stop_tasks)
              /\ EventsOf("pre_stop_failed") = <<>>
              /\ EventsOf("post_stop_failed") = <<>>
        /\ \A i \in 1 .. Len(trace) :
              trace[i].op \in {"pre_stop_failed", "post_stop_failed"} =>
                  /\ exc = "TaskFailedException"
                  /\ \A j \in (i + 1) .. Len(trace) : trace[j].op \notin HookOps
                  /\ EventsOf("stop") = <<>> \/ trace[i].op = "post_stop_failed"
                      \/ EventsOf("stop")[Len(EventsOf("stop"))].host # trace[i].host
                  /\ pc \in {"ssh_exit", "except", "exit"}
                  /\ pc = "exit" => status = 1

\* C20 witness: a run with a skipped broker, two processed brokers and both
\* kinds of task completed
C20_Witness ==
    /\ Completed
    /\ opts.skip >= 1
    /\ Len(Selected) >= 2
    /\ Len(pre_stop_tasks) >= 2
    /\ Len(post_stop_tasks) >= 1

====
